---- MODULE Spec2Model ----
(***************************************************************************)
(* Order fulfilment of the storefront backend: the order-creation          *)
(* transaction of routes/orders.js (stock reservation, pricing, payment    *)
(* intent, commit, post-commit shipping reconciliation), payment           *)
(* verification, and the Product stock ledger.                             *)
(*                                                                         *)
(* Money is in rupees. Product prices are multiples of 50, so that the     *)
(* 18% tax `subtotal * 0.18` is a whole number and integer arithmetic is   *)
(* exact. Dates are abstracted to "set"/NoneVal.                           *)
(***************************************************************************)
EXTENDS Integers, Sequences, FiniteSets, TLC

\* ------------------------------------------------------------------ bounds
NReq == 2        \* create requests that may be in flight together
MaxItems == 2    \* items in one cart
MaxQty == 2      \* largest quantity of one item
MaxStock == 2    \* largest initial stock of a counter
MaxNow == 4      \* the last minute of the clock
MaxCalls == 2    \* adapter calls made one after the other
MaxCarriers == 2 \* carriers in one serviceability response

\* --------------------------------------------------------- program constants
FreeShippingAbove == 1000
FlatShipping == 50
TaxPercent == 18
GatewayError == 502
Created == 201

Requests == 1..NReq
NoneVal == "none"

Max(a, b) == IF a > b THEN a ELSE b

\* ----------------------------------------------------------------- Product
ProductIds == {"P1", "P2"}
UnknownProduct == "PX"

\* String.prototype.toLowerCase on the size labels and provider statuses that
\* occur (every other string that occurs is already lower case)
ToLowerCase(s) ==
  CASE s = "S" -> "s"
    [] s = "M" -> "m"
    [] s = "XL" -> "xl"
    [] s = "NEW" -> "new"
    [] s = "Delivered" -> "delivered"
    [] s = "In Transit" -> "in transit"
    [] OTHER -> s

\* String.prototype.trim on the provider statuses that occur
Trim(s) ==
  CASE s = " Delivered " -> "Delivered"
    [] OTHER -> s

RECURSIVE SumStock(_)
\* sizes.reduce((sum, e) => sum + e.stock, 0)
SumStock(sizes) ==
  IF sizes = <<>> THEN 0 ELSE sizes[1].stock + SumStock(Tail(sizes))

\* productSchema.methods.hasAvailableStock
hasAvailableStock(product) ==
  product.stock > 0 \/ \E i \in 1..Len(product.sizes) : product.sizes[i].stock > 0

\* product.sizes.find(size => size.size.toLowerCase() === label.toLowerCase()):
\* index of the first matching entry, 0 when there is none
FindSize(sizes, label) ==
  LET hits == {i \in 1..Len(sizes) : ToLowerCase(sizes[i].size) = ToLowerCase(label)}
  IN IF hits = {} THEN 0 ELSE CHOOSE i \in hits : \A j \in hits : i <= j

\* A naive reservation: decrement whatever was asked, no stock check, no clamp
ReserveItemUnchecked(product, size, quantity) ==
  LET sel == IF size # NoneVal THEN FindSize(product.sizes, size) ELSE 0
      sizes1 == IF sel > 0
                THEN [product.sizes EXCEPT ![sel].stock = @ - quantity]
                ELSE product.sizes
      stock1 == IF Len(product.sizes) > 0 THEN SumStock(sizes1)
                ELSE product.stock - quantity
      p1 == [product EXCEPT !.sizes = sizes1, !.stock = stock1]
  IN [status |-> 0, product |-> [p1 EXCEPT !.inStock = hasAvailableStock(p1)]]

\* A reservation that takes an item without a size off the first size entry
ReserveItemFirstVariant(product, size, quantity) ==
  LET hasSizeVariants == Len(product.sizes) > 0
      sel == IF size # NoneVal THEN FindSize(product.sizes, size)
             ELSE IF hasSizeVariants THEN 1 ELSE 0
      sizes1 == IF sel > 0
                THEN [product.sizes EXCEPT ![sel].stock = Max(0, @ - quantity)]
                ELSE product.sizes
      stock1 == IF hasSizeVariants THEN SumStock(sizes1)
                ELSE Max(0, product.stock - quantity)
      p1 == [product EXCEPT !.sizes = sizes1, !.stock = stock1]
  IN IF size # NoneVal /\ sel = 0 THEN [status |-> 400, product |-> product]
     ELSE IF size # NoneVal /\ product.sizes[sel].stock < quantity
          THEN [status |-> 409, product |-> product]
     ELSE IF size = NoneVal /\ SumStock(product.sizes) + (IF hasSizeVariants THEN 0 ELSE product.stock) < quantity
          THEN [status |-> 409, product |-> product]
     ELSE [status |-> 0, product |-> [p1 EXCEPT !.inStock = hasAvailableStock(p1)]]

\* A reservation that leaves the inStock flag for a later write
ReserveItemStaleFlag(product, size, quantity) ==
  LET hasSizeVariants == Len(product.sizes) > 0
      sel == IF size # NoneVal THEN FindSize(product.sizes, size) ELSE 0
      sizes1 == IF sel > 0
                THEN [product.sizes EXCEPT ![sel].stock = Max(0, @ - quantity)]
                ELSE product.sizes
      stock1 == IF hasSizeVariants THEN SumStock(sizes1)
                ELSE Max(0, product.stock - quantity)
  IN IF size # NoneVal /\ sel = 0 THEN [status |-> 400, product |-> product]
     ELSE IF sel > 0 /\ product.sizes[sel].stock < quantity
          THEN [status |-> 409, product |-> product]
     ELSE IF sel = 0 /\ SumStock(product.sizes) + (IF hasSizeVariants THEN 0 ELSE product.stock) < quantity
          THEN [status |-> 409, product |-> product]
     ELSE [status |-> 0, product |-> [product EXCEPT !.sizes = sizes1, !.stock = stock1]]

\* A reservation that takes the quantity off every size entry of the product
ReserveItemEverySize(product, size, quantity) ==
  LET sel == IF size # NoneVal THEN FindSize(product.sizes, size) ELSE 0
      sizes1 == IF sel > 0
                THEN [i \in 1..Len(product.sizes) |->
                        [product.sizes[i] EXCEPT !.stock = Max(0, @ - quantity)]]
                ELSE product.sizes
      stock1 == IF Len(product.sizes) > 0 THEN SumStock(sizes1)
                ELSE Max(0, product.stock - quantity)
      p1 == [product EXCEPT !.sizes = sizes1, !.stock = stock1]
  IN IF size # NoneVal /\ sel = 0 THEN [status |-> 400, product |-> product]
     ELSE IF sel > 0 /\ product.sizes[sel].stock < quantity
          THEN [status |-> 409, product |-> product]
     ELSE IF sel = 0 /\ SumStock(product.sizes) + product.stock < quantity
          THEN [status |-> 409, product |-> product]
     ELSE [status |-> 0, product |-> [p1 EXCEPT !.inStock = hasAvailableStock(p1)]]

\* The stock part of the item loop: size lookup, the three stock checks, the
\* decrement, the aggregate recomputation and the inStock flag.
\* status 0 = reserved; otherwise the statusCode of the thrown error.
ReserveItem(product, size, quantity) ==
  LET baseStock == product.stock
      hasSizeVariants == Len(product.sizes) > 0
      sel == IF size # NoneVal THEN FindSize(product.sizes, size) ELSE 0
      sizes1 == IF sel > 0
                THEN [product.sizes EXCEPT ![sel].stock = Max(0, @ - quantity)]
                ELSE product.sizes
      stock1 == IF hasSizeVariants THEN Max(0, SumStock(sizes1))
                ELSE Max(0, baseStock - quantity)
      p1 == [product EXCEPT !.sizes = sizes1, !.stock = stock1]
      fail(code) == [status |-> code, product |-> product]
  IN IF size # NoneVal /\ sel = 0 THEN fail(400)
     ELSE IF sel > 0 /\ product.sizes[sel].stock < quantity THEN fail(409)
     ELSE IF sel = 0 /\ ~hasSizeVariants /\ baseStock < quantity THEN fail(409)
     ELSE IF sel = 0 /\ hasSizeVariants /\ SumStock(product.sizes) < quantity
          THEN fail(409)
     ELSE [status |-> 0, product |-> [p1 EXCEPT !.inStock = hasAvailableStock(p1)]]

\* ------------------------------------------------------------------ pricing
\* A threshold that ships an order of exactly 1000 for free
FreeShippingFrom(subtotal) ==
  IF subtotal >= FreeShippingAbove THEN 0 ELSE FlatShipping

\* const shipping = subtotal > 1000 ? 0 : 50
ProvisionalShipping(subtotal) ==
  IF subtotal > FreeShippingAbove THEN 0 ELSE FlatShipping

\* const tax = subtotal * 0.18
Tax(subtotal) == (subtotal * TaxPercent) \div 100

\* A subtotal that stops after the first item
SubtotalOfFirstItem(items) ==
  IF items = <<>> THEN 0 ELSE items[1].price * items[1].quantity

RECURSIVE Subtotal(_)
\* subtotal += itemPrice * quantity, over the order items
Subtotal(items) ==
  IF items = <<>> THEN 0
  ELSE items[1].price * items[1].quantity + Subtotal(Tail(items))

\* ------------------------------------------------------- shipping provider
STATUS_MAP ==
  [k \in {"new", "pending", "confirmed", "pickup scheduled", "pickup scheduled today",
          "pickup generated", "manifest", "shipped", "transit", "in transit",
          "out for delivery", "customer not available", "delivered", "cancelled",
          "rto initiated", "rto delivered", "return initiated", "return pending",
          "return picked up", "return in transit", "return delivered"} |->
     CASE k \in {"new", "pending"} -> "processing"
       [] k = "confirmed" -> "confirmed"
       [] k \in {"pickup scheduled", "pickup scheduled today", "pickup generated",
                 "manifest"} -> "pickup_scheduled"
       [] k = "shipped" -> "shipped"
       [] k \in {"transit", "in transit"} -> "in_transit"
       [] k \in {"out for delivery", "customer not available"} -> "out_for_delivery"
       [] k = "delivered" -> "delivered"
       [] k = "cancelled" -> "cancelled"
       [] k = "rto initiated" -> "rto_initiated"
       [] k = "rto delivered" -> "rto_delivered"
       [] k \in {"return initiated", "return pending"} -> "return_initiated"
       [] k \in {"return picked up", "return in transit"} -> "return_in_transit"
       [] k = "return delivered" -> "returned"]

\* The property names that the object literal STATUS_MAP inherits from
\* Object.prototype and that toLowerCase leaves as they are
InheritedKeys == {"constructor", "__proto__"}

\* What Mongoose's string cast makes of the inherited value (a function or an
\* object) when it is assigned to orderStatus
InheritedValue == "function Object() { [native code] }"

\* A lookup that lower-cases the provider status without trimming it
normalizeStatusUntrimmed(status) ==
  LET normalized == ToLowerCase(status)
  IN IF normalized \in DOMAIN STATUS_MAP THEN STATUS_MAP[normalized]
     ELSE IF normalized \in InheritedKeys THEN InheritedValue
     ELSE NoneVal

\* normalizeStatus: STATUS_MAP[status.toString().trim().toLowerCase()] || null,
\* NoneVal standing for null
normalizeStatus(status) ==
  LET normalized == ToLowerCase(Trim(status))
  IN IF normalized \in DOMAIN STATUS_MAP THEN STATUS_MAP[normalized]
     ELSE IF normalized \in InheritedKeys THEN InheritedValue
     ELSE NoneVal

\* orderSchema.orderStatus enum
OrderStatuses ==
  {"pending", "processing", "confirmed", "pickup_scheduled", "shipped", "in_transit",
   "out_for_delivery", "delivered", "cancelled", "return_initiated",
   "return_in_transit", "returned", "rto_initiated", "rto_delivered"}

\* orderSchema.returnStatus enum
ReturnStatuses ==
  {"none", "return_initiated", "return_in_transit", "return_completed",
   "return_cancelled"}

\* a || b on strings, NoneVal standing for undefined / null / ''
OrElse(a, b) == IF a # NoneVal THEN a ELSE b

\* -------------------------------------------------------------------- state
VARIABLES
  products,   \* the Product collection: committed documents
  orders,     \* the Order collection: committed documents, in insertion order
  req,        \* the create requests in flight: handler position and locals
  enabled,    \* shiprocketService.isEnabled(): fixed by the environment
  last,       \* the route and HTTP status of the latest answered lifecycle request
  stock0,     \* the Product collection at start-up (history, never read by an action)
  service,    \* shiprocketService: the cached token and its expiry
  call,       \* the adapter call in flight: getRateQuote and the request it makes
  now,        \* Date.now(), in minutes
  returns     \* the return requests in flight: handler position and locals

vars == <<products, orders, req, enabled, last, stock0, service, call, now, returns>>

PaymentMethods == {"cod", "card"}
OnlineMethods == {"razorpay", "upi", "card", "netbanking"}
Users == {"u1", "u2"}

\* req.user.id of the r-th request
UserOf(r) == IF r % 2 = 1 THEN "u1" ELSE "u2"

\* razorpayOrder.id: the gateway issues one id per intent
GatewayOrderId(r) ==
  CASE r = 1 -> "ord_1"
    [] r = 2 -> "ord_2"
    [] OTHER -> "ord_3"

\* order.shippingIntegration when the order has none; deliveredAt is a time of
\* the clock, 0 while it is not set
NoShippingIntegration ==
  [present |-> FALSE, awb |-> NoneVal, orderId |-> NoneVal, status |-> NoneVal,
   returnShipmentId |-> NoneVal, returnAwb |-> NoneVal, trackingHistory |-> <<>>,
   deliveredAt |-> 0]

\* The items a cart is drawn from: plain and size-variant products, matching
\* and non-matching size labels, zero quantity, unknown and missing product
ItemChoices ==
  {[product |-> "P1", size |-> NoneVal, quantity |-> q] : q \in 0..MaxQty}
  \cup {[product |-> "P2", size |-> sz, quantity |-> q] :
          sz \in {"s", NoneVal}, q \in 1..MaxQty}
  \cup {[product |-> "P2", size |-> "xl", quantity |-> 1],
        [product |-> UnknownProduct, size |-> NoneVal, quantity |-> 1],
        [product |-> NoneVal, size |-> NoneVal, quantity |-> 1]}

\* The handler's in-memory copy of the order after the commit: the fields the
\* post-commit steps read back
NoDoc == [orderStatus |-> NoneVal, shippingIntegration |-> NoShippingIntegration]

NoView == [p \in ProductIds |-> [price |-> 0, stock |-> 0, sizes |-> <<>>, inStock |-> FALSE]]

IdleRequest ==
  [pc |-> "idle", user |-> NoneVal, method |-> NoneVal, cart |-> <<>>, idx |-> 0,
   view |-> NoView, wset |-> {}, orderItems |-> <<>>, status |-> 0, oid |-> 0,
   gateway |-> 0, intentAmount |-> 0, doc |-> NoDoc, degraded |-> FALSE]

\* new Order({...}) with the schema defaults
NewOrder(user, method, items, razorpayOrderId) ==
  LET subtotal == Subtotal(items)
      shipping == ProvisionalShipping(subtotal)
      tax == Tax(subtotal)
  IN [orderNumber |-> <<>>,
      user |-> user, paymentMethod |-> method, paymentStatus |-> "pending",
      orderStatus |-> "pending", razorpayOrderId |-> razorpayOrderId,
      razorpayPaymentId |-> NoneVal, items |-> items,
      subtotal |-> subtotal, shipping |-> shipping, tax |-> tax,
      total |-> subtotal + shipping + tax,
      returnStatus |-> "none", cancelledByUser |-> FALSE, cancelledAt |-> NoneVal,
      shippingIntegration |-> NoShippingIntegration]

\* A hook that numbers the order anew at every validation
preValidateAlways(order) ==
  [order EXCEPT !.orderNumber = <<"MT", Len(orders)>>]

\* orderSchema.pre('validate'): an order without a number gets `MT`, the clock
\* and the count of stored orders (the clock is left out of the model)
preValidate(order) ==
  IF order.orderNumber = <<>>
  THEN [order EXCEPT !.orderNumber = <<"MT", Len(orders)>>]
  ELSE order

\* order.save(): validation, with its hook, then the write
save(order) == preValidate(order)

PlainProduct(stock) ==
  [price |-> 500, stock |-> stock, sizes |-> <<>>, inStock |-> stock > 0]

VariantProduct(s, m) ==
  [price |-> 600, stock |-> s + m,
   sizes |-> <<[size |-> "S", stock |-> s], [size |-> "M", stock |-> m]>>,
   inStock |-> s + m > 0]

\* constructor(): this.token = null; this.tokenExpiresAt = 0 (tokens are
\* numbered from 1, 0 standing for null)
NewService == [token |-> 0, tokenExpiresAt |-> 0]

\* getRateQuote answering null
NullQuote == [found |-> FALSE, courierCompanyId |-> 0, charge |-> 0]

\* No adapter call in flight. pc is the position in request(); retry is
\* config._retry; token is what authenticate() returned to the attempt under
\* way; attempts lists the outbound calls of the request made so far, each with
\* the token it carried and the status it was answered with; status is what
\* request() ended with; logins counts the calls of POST /auth/login since
\* start-up and calls the calls of getRateQuote; companies and quote are the
\* serviceability response and what getRateQuote returned.
IdleCall ==
  [pc |-> "idle", retry |-> FALSE, token |-> 0, attempts |-> <<>>, status |-> 0,
   logins |-> 0, calls |-> 0, companies |-> <<>>, quote |-> NullQuote]

\* A return request before it arrives: pc is the handler's position, oid and
\* doc the order it loaded (doc holds the document between its awaits), asked
\* whether it called the provider's create endpoint, status its HTTP answer
IdleReturn ==
  [pc |-> "idle", oid |-> 0, doc |-> <<>>, asked |-> FALSE, status |-> 0]

\* The state after start-up, with n create requests yet to arrive and the
\* stock counters drawn from `stocks`
InitWith(n, stocks) ==
  /\ \E a \in stocks :
       products = [p \in ProductIds |->
                     IF p = "P1" THEN PlainProduct(a) ELSE VariantProduct(a, 1)]
  /\ orders = <<>>
  /\ req = [r \in Requests |->
              IF r <= n THEN IdleRequest ELSE [IdleRequest EXCEPT !.pc = "absent"]]
  /\ enabled \in BOOLEAN
  /\ last = [op |-> "none", status |-> 0]
  /\ stock0 = products
  /\ service = NewService
  /\ call = IdleCall
  /\ now = 1
  /\ returns = [k \in Requests |-> IdleReturn]

Init == InitWith(NReq, 0..MaxStock)

\* ------------------------------------------------------- POST /api/orders
InTransaction(r) == req[r].pc = "txn"

\* The request enters the handler: body validation, then withTransaction
\* starts the callback on a fresh snapshot.
Start(r) ==
  /\ req[r].pc = "idle"
  /\ r > 1 => req[r - 1].pc # "idle"
  /\ \E user \in {UserOf(r)}, method \in PaymentMethods, body \in {"ok", "noItems", "noAddress"} :
       req' = [req EXCEPT ![r] =
                 IF body # "ok"
                 THEN [IdleRequest EXCEPT !.pc = "done", !.status = 400,
                                          !.user = user, !.method = method]
                 ELSE [IdleRequest EXCEPT !.pc = "txn", !.idx = 1, !.view = products,
                                          !.user = user, !.method = method]]
  /\ UNCHANGED <<products, orders, enabled, last, stock0, service, call, now, returns>>

\* An abort whose error has lost its statusCode: the catch block falls back to
\* 500
AbortWithoutStatusCode(q, cart, code) ==
  [q EXCEPT !.pc = "done", !.status = 500, !.view = NoView, !.wset = {},
            !.orderItems = <<>>, !.cart = cart]

\* The error thrown out of the callback: withTransaction aborts, the catch
\* block answers with error.statusCode.
Abort(q, cart, code) ==
  [q EXCEPT !.pc = "done", !.status = code, !.view = NoView, !.wset = {},
            !.orderItems = <<>>, !.cart = cart]

\* An abort that leaves the transaction's product writes in the collection
AbortKeepsWrites(r) ==
  [p \in ProductIds |-> IF p \in req[r].wset THEN req[r].view[p] ELSE products[p]]

\* The Product collection after withTransaction has aborted: the writes made
\* with { session } are discarded
AfterAbort(r) == products

\* A write conflict (TransientTransactionError): withTransaction aborts and
\* runs the callback again on a fresh snapshot.
Retry(q, cart) ==
  [q EXCEPT !.idx = 1, !.view = products, !.wset = {}, !.orderItems = <<>>,
            !.cart = cart]

\* product.save({ session }) meets a write conflict when another open
\* transaction has written the document, or a write to it was committed after
\* this transaction's snapshot.
WriteConflict(r, p) ==
  /\ p \notin req[r].wset
  /\ \/ products[p] # req[r].view[p]
     \/ \E o \in Requests \ {r} : InTransaction(o) /\ p \in req[o].wset

\* One turn of `for (const item of items)`.
ItemStep(r, item) ==
  LET q == req[r]
      cart == IF q.idx <= Len(q.cart) THEN q.cart ELSE Append(q.cart, item)
      product == q.view[item.product]
      res == ReserveItem(product, item.size, item.quantity)
  IN IF item.product = NoneVal THEN Abort(q, cart, 400)
     ELSE IF item.product \notin ProductIds THEN Abort(q, cart, 404)
     ELSE IF item.quantity <= 0 THEN Abort(q, cart, 400)
     ELSE IF res.status # 0 THEN Abort(q, cart, res.status)
     ELSE IF res.product # product /\ WriteConflict(r, item.product)
          THEN Retry(q, cart)
     ELSE [q EXCEPT !.cart = cart, !.idx = @ + 1,
                    !.view[item.product] = res.product,
                    !.wset = IF res.product # product THEN @ \cup {item.product} ELSE @,
                    !.orderItems = Append(@, [product |-> item.product, size |-> item.size,
                                              quantity |-> item.quantity,
                                              price |-> product.price])]

Item(r, maxItems) ==
  /\ InTransaction(r)
  /\ \E item \in ItemChoices :
       /\ \/ req[r].idx <= Len(req[r].cart) /\ item = req[r].cart[req[r].idx]
          \/ req[r].idx = Len(req[r].cart) + 1 /\ Len(req[r].cart) < maxItems
       /\ req' = [req EXCEPT ![r] = ItemStep(r, item)]
       /\ products' = IF ItemStep(r, item).idx > req[r].idx THEN products
                      ELSE AfterAbort(r)
  /\ UNCHANGED <<orders, enabled, last, stock0, service, call, now, returns>>

\* amount: Math.round(total * 100), in paise
IntentAmount(total) == 100 * total

\* The transaction commits: the buffered product writes and the new order
\* become visible together.
Commit(r, order) ==
  /\ products' = [p \in ProductIds |->
                    IF p \in req[r].wset THEN req[r].view[p] ELSE products[p]]
  /\ orders' = Append(orders, save(order))
  /\ req' = [req EXCEPT ![r] =
               [@ EXCEPT !.pc = "quote", !.oid = Len(orders) + 1, !.view = NoView,
                         !.wset = {}, !.orderItems = <<>>,
                         !.gateway = IF order.razorpayOrderId # NoneVal THEN @ + 1 ELSE @,
                         !.intentAmount = IF order.razorpayOrderId # NoneVal
                                          THEN IntentAmount(order.total) ELSE @]]

CartDone(r) ==
  /\ InTransaction(r)
  /\ Len(req[r].cart) >= 1
  /\ req[r].idx = Len(req[r].cart) + 1

\* A payment branch that opens an intent for every method
OpensIntentAlways(method) == TRUE

\* ['razorpay', 'upi', 'card', 'netbanking'].includes(paymentMethod)
OpensIntent(method) == method \in OnlineMethods

\* Pricing and order.save({ session }) for a method that opens no intent.
CheckoutOffline(r) ==
  /\ CartDone(r)
  /\ ~OpensIntent(req[r].method)
  /\ Commit(r, NewOrder(req[r].user, req[r].method, req[r].orderItems, NoneVal))
  /\ UNCHANGED <<enabled, last, stock0, service, call, now, returns>>

\* razorpay.orders.create succeeds: the intent id is stored on the order.
CheckoutOnline(r) ==
  /\ CartDone(r)
  /\ OpensIntent(req[r].method)
  /\ Commit(r, NewOrder(req[r].user, req[r].method, req[r].orderItems, GatewayOrderId(r)))
  /\ UNCHANGED <<enabled, last, stock0, service, call, now, returns>>

\* razorpay.orders.create fails: the error is rethrown with statusCode 502.
GatewayFails(r) ==
  /\ CartDone(r)
  /\ OpensIntent(req[r].method)
  /\ req' = [req EXCEPT ![r] = [Abort(@, @.cart, GatewayError) EXCEPT !.gateway = @ + 1]]
  /\ products' = AfterAbort(r)
  /\ UNCHANGED <<orders, enabled, last, stock0, service, call, now, returns>>

\* What getRateQuote hands back after the commit: it throws, returns null
\* (provider disabled, or nothing serviceable), or returns a quote with a charge
QuoteOutcomes == {"throws", "null", "charged"}
QuoteCharge(outcome) == 80

\* shippingQuote?.charge ?? fallbackShipping
ShippingCharge(outcome, fallbackShipping) ==
  IF outcome \in {"throws", "null"} THEN fallbackShipping ELSE QuoteCharge(outcome)

\* A reconciliation that revises the shipping charge and leaves the total
ReconcileShippingOnly(order, outcome) ==
  [order EXCEPT !.shipping = ShippingCharge(outcome, ProvisionalShipping(order.subtotal)),
                !.shippingIntegration =
                   IF enabled THEN [@ EXCEPT !.present = TRUE] ELSE @]

\* Post-commit reconciliation: reload the order, ask for a rate quote, set
\* shipping and total together, order.save().
Reconcile(order, outcome) ==
  LET shippingCharge == ShippingCharge(outcome, ProvisionalShipping(order.subtotal))
  IN [order EXCEPT !.shipping = shippingCharge,
                   !.total = order.subtotal + order.tax + shippingCharge,
                   !.shippingIntegration =
                      IF enabled THEN [@ EXCEPT !.present = TRUE] ELSE @]

Quote(r, outcomes) ==
  /\ req[r].pc = "quote"
  /\ \E outcome \in (IF enabled THEN outcomes ELSE {"null"}) :
       /\ LET order == save(Reconcile(orders[req[r].oid], outcome))
          IN /\ orders' = [orders EXCEPT ![req[r].oid] = order]
             /\ req' = [req EXCEPT ![r] =
                          [@ EXCEPT !.pc = "ship",
                                    !.degraded = (outcome = "throws"),
                                    !.doc = [orderStatus |-> order.orderStatus,
                                             shippingIntegration |->
                                               order.shippingIntegration]]]
  /\ UNCHANGED <<products, enabled, last, stock0, service, call, now, returns>>

\* What POST /orders/create/adhoc answers
ShipmentResponses ==
  {[status |-> "NEW", awb |-> "awb_1", order_id |-> "sr_1"],
   [status |-> "weird_custom_code", awb |-> NoneVal, order_id |-> "sr_1"]}

\* createShipment on the handler's copy `doc`, written over the stored order:
\* save() sends the shippingIntegration that was assigned and orderStatus
\* only when the assignment changed the handler's copy.
createShipment(order, doc, data) ==
  LET mappedStatus == OrElse(normalizeStatus(data.status), doc.orderStatus)
      si == doc.shippingIntegration
  IN [order EXCEPT
        !.shippingIntegration =
           [si EXCEPT !.present = TRUE,
                      !.orderId = OrElse(data.order_id, si.orderId),
                      !.awb = OrElse(data.awb, si.awb),
                      !.status = OrElse(data.status, si.status)],
        !.orderStatus = IF mappedStatus # doc.orderStatus THEN mappedStatus ELSE @]

\* The shipment is created (or the provider is disabled) and 201 is sent.
Ship(r, responses) ==
  /\ req[r].pc = "ship"
  /\ IF enabled
     THEN \E data \in responses :
            orders' = [orders EXCEPT ![req[r].oid] =
                                       save(createShipment(@, req[r].doc, data))]
     ELSE UNCHANGED orders
  /\ req' = [req EXCEPT ![r] = [@ EXCEPT !.pc = "done", !.status = Created, !.doc = NoDoc]]
  /\ UNCHANGED <<products, enabled, last, stock0, service, call, now, returns>>

\* A shipment error that escapes to the handler's outer catch
ShipmentErrorEscapes(q) ==
  [q EXCEPT !.pc = "done", !.status = 500, !.doc = NoDoc, !.degraded = TRUE]

\* catch (shipmentError) { console.error(...) }, then res.status(201)
ShipmentErrorSwallowed(q) ==
  [q EXCEPT !.pc = "done", !.status = Created, !.doc = NoDoc, !.degraded = TRUE]

\* createShipment throws: the error is logged and 201 is sent all the same.
ShipFails(r) ==
  /\ req[r].pc = "ship"
  /\ enabled
  /\ req' = [req EXCEPT ![r] = ShipmentErrorSwallowed(@)]
  /\ UNCHANGED <<products, orders, enabled, last, stock0, service, call, now, returns>>

\* ------------------------------------------------ POST /api/orders/:id/verify
Secret == "s3cr3t"
PaymentIds == {"pay_1", "pay_2"}

\* order.razorpayOrderId + '|' + razorpayPaymentId, as the pieces joined; an
\* absent id is concatenated as the text "undefined"
SignedText(razorpayOrderId, razorpayPaymentId) ==
  <<IF razorpayOrderId = NoneVal THEN "undefined" ELSE razorpayOrderId, "|",
    razorpayPaymentId>>

\* crypto.createHmac('sha256', key).update(text).digest('hex'), idealised as
\* collision free
HmacSha256(key, text) == <<"hmac-sha256", key, text>>

\* The signatures a caller may send: what the gateway signs for its own
\* intents, and digests made without the secret
Signatures ==
  {HmacSha256(Secret, SignedText(g, "pay_1")) : g \in {"ord_1", "ord_2"}}
  \cup {HmacSha256("guess", SignedText("ord_1", "pay_1"))}

Actors ==
  {[id |-> "u1", role |-> "user"], [id |-> "u2", role |-> "user"],
   [id |-> "a1", role |-> "admin"]}

\* Order.findById: the stored orders are 1..Len(orders); 0 stands for an id
\* that finds nothing
OrderIds == 1..Len(orders)

Answer(op, status) == last' = [op |-> op, status |-> status]

\* A signature check that leaves the stored order id out of the signed text
SignatureOverPaymentIdOnly(order, razorpayPaymentId, razorpaySignature) ==
  HmacSha256(Secret, <<razorpayPaymentId>>) = razorpaySignature

\* hash === razorpaySignature
SignatureMatches(order, razorpayPaymentId, razorpaySignature) ==
  HmacSha256(Secret, SignedText(order.razorpayOrderId, razorpayPaymentId))
    = razorpaySignature

\* The owner check that lets an admin through
IsOwnerOrAdmin(order, actor) == order.user = actor.id \/ actor.role = "admin"

\* order.user.toString() === req.user.id
IsOwner(order, actor) == order.user = actor.id

\* if (!order) return res.status(404), the same in verify, cancel, return and
\* tracking
NotFound(op) ==
  /\ Answer(op, 404)
  /\ UNCHANGED <<products, orders, req, enabled, stock0, service, call, now, returns>>

\* The handler once the order is found: the order it leaves stored and the
\* HTTP status it answers with
verify(order, actor, razorpayPaymentId, razorpaySignature) ==
  IF ~IsOwner(order, actor) THEN [order |-> order, status |-> 403]
  ELSE IF SignatureMatches(order, razorpayPaymentId, razorpaySignature)
  THEN [order |-> save([order EXCEPT !.paymentStatus = "completed",
                                     !.paymentMethod = "razorpay",
                                     !.razorpayPaymentId = razorpayPaymentId]),
        status |-> 200]
  ELSE [order |-> save([order EXCEPT !.paymentStatus = "failed"]), status |-> 400]

Verify(o, actor, razorpayPaymentId, razorpaySignature) ==
  /\ LET res == verify(orders[o], actor, razorpayPaymentId, razorpaySignature)
     IN /\ orders' = [orders EXCEPT ![o] = res.order]
        /\ Answer("verify", res.status)
  /\ UNCHANGED <<products, req, enabled, stock0, service, call, now, returns>>

\* ------------------------------------------------ PUT /api/orders/:id/cancel
nonCancelableStatuses ==
  {"in_transit", "out_for_delivery", "delivered", "return_in_transit", "returned",
   "cancelled", "rto_delivered"}

\* A cancellation that always records the user as the one who cancelled
CancelledByUserAlways(order, isAdmin) ==
  [order EXCEPT
     !.orderStatus = "cancelled",
     !.cancelledByUser = TRUE,
     !.cancelledAt = "set",
     !.shippingIntegration = IF @.present THEN [@ EXCEPT !.status = "cancelled"] ELSE @,
     !.paymentStatus = IF @ = "completed" /\ order.paymentMethod # "cod"
                       THEN "refunded" ELSE @]

\* A cancellation that marks every completed payment refunded, cod included
CancelledRefundsCod(order, isAdmin) ==
  [order EXCEPT
     !.orderStatus = "cancelled",
     !.cancelledByUser = ~isAdmin,
     !.cancelledAt = "set",
     !.shippingIntegration = IF @.present THEN [@ EXCEPT !.status = "cancelled"] ELSE @,
     !.paymentStatus = IF @ = "completed" THEN "refunded" ELSE @]

\* The handler's writes once the guards have passed; a shipment cancellation at
\* the provider, made or failed, leaves the same fields behind
Cancelled(order, isAdmin) ==
  [order EXCEPT
     !.orderStatus = "cancelled",
     !.cancelledByUser = ~isAdmin,
     !.cancelledAt = "set",
     !.shippingIntegration = IF @.present THEN [@ EXCEPT !.status = "cancelled"] ELSE @,
     !.paymentStatus = IF @ = "completed" /\ order.paymentMethod # "cod"
                       THEN "refunded" ELSE @]

\* A guard that refuses only the orders that are already cancelled
OnlyCancelledRefused(order, actor) ==
  actor.role # "admin" /\ order.orderStatus = "cancelled"

\* if (!isAdmin && nonCancelableStatuses.includes(order.orderStatus))
CancelRefused(order, actor) ==
  actor.role # "admin" /\ order.orderStatus \in nonCancelableStatuses

\* The condition under which the handler asks the provider to cancel the
\* shipment, and cancelShipment finds a provider order id to cancel
CancelsShipment(order) ==
  /\ enabled
  /\ order.shippingIntegration.awb # NoneVal
  /\ order.orderStatus \notin {"delivered", "return_in_transit", "returned"}
  /\ order.shippingIntegration.orderId # NoneVal

\* The handler once the order is found: the order it leaves stored, the HTTP
\* status, and whether POST /orders/cancel was sent to the provider
cancel(order, actor) ==
  IF ~IsOwner(order, actor) /\ actor.role # "admin"
  THEN [order |-> order, status |-> 403, provider |-> FALSE]
  ELSE IF CancelRefused(order, actor)
  THEN [order |-> order, status |-> 400, provider |-> FALSE]
  ELSE [order |-> save(Cancelled(order, actor.role = "admin")), status |-> 200,
        provider |-> CancelsShipment(order)]

\* A cancellation that returns the quantity of the order's first item to the
\* product's stock
ProductsRestocked(result) ==
  IF result.status = 200
  THEN LET item == result.order.items[1]
       IN [products EXCEPT ![item.product].stock = @ + item.quantity,
                           ![item.product].inStock = TRUE]
  ELSE products

\* The Product collection after the handler, result being what it did to the
\* order: the handler loads and saves the order only
ProductsAfterCancel(result) == products

Cancel(o, actor) ==
  /\ orders' = [orders EXCEPT ![o] = cancel(@, actor).order]
  /\ Answer("cancel", cancel(orders[o], actor).status)
  /\ products' = ProductsAfterCancel(cancel(orders[o], actor))
  /\ UNCHANGED <<req, enabled, stock0, service, call, now, returns>>

\* A failed shipment cancellation that reaches the handler's outer catch
CancelFailureFatal(order, actor) ==
  [order |-> order, status |-> 500, provider |-> TRUE]

\* catch (cancelError) { console.error(...) }: the handler goes on to its own
\* writes and answers 200
CancelFailureSwallowed(order, actor) ==
  [order |-> save(Cancelled(order, actor.role = "admin")), status |-> 200,
   provider |-> TRUE]

\* The handler when POST /orders/cancel fails at the provider
cancelProviderDown(order, actor) ==
  IF cancel(order, actor).provider
  THEN CancelFailureSwallowed(order, actor)
  ELSE cancel(order, actor)

\* A cancel during which the provider fails the shipment cancellation.
CancelProviderDown(o, actor) ==
  /\ cancel(orders[o], actor).provider
  /\ orders' = [orders EXCEPT ![o] = cancelProviderDown(@, actor).order]
  /\ Answer("cancel", cancelProviderDown(orders[o], actor).status)
  /\ products' = ProductsAfterCancel(cancelProviderDown(orders[o], actor))
  /\ UNCHANGED <<req, enabled, stock0, service, call, now, returns>>

\* ----------------------------------------------- POST /api/orders/:id/return
\* createReturnShipment, answered by the provider with a shipment id
createReturnShipment(order) ==
  [order EXCEPT !.returnStatus = "return_initiated",
                !.shippingIntegration = [@ EXCEPT !.present = TRUE,
                                                  !.returnShipmentId = "rs_1",
                                                  !.returnAwb = "rawb_1"]]

\* A return guard that looks at the order status only
ReturnRefusedUnlessDelivered(order) == order.orderStatus # "delivered"

\* if (order.orderStatus !== 'delivered') ...; if (order.returnStatus &&
\* order.returnStatus !== 'none') ...
ReturnRefused(order) ==
  order.orderStatus # "delivered" \/ order.returnStatus # "none"

\* A provider failure that is logged while the return is recorded locally
ReturnFailureRecorded(order) ==
  [order |-> [order EXCEPT !.returnStatus = "return_initiated"], status |-> 200,
   provider |-> TRUE]

\* catch (returnError): 502, nothing saved
ReturnFailure(order) == [order |-> order, status |-> 502, provider |-> TRUE]

\* The handler once the order is found: the order it leaves stored, the HTTP
\* status, and whether the reverse shipment was requested from the provider
initiateReturn(order, actor, providerFails) ==
  IF ~IsOwner(order, actor) /\ actor.role # "admin"
  THEN [order |-> order, status |-> 403, provider |-> FALSE]
  ELSE IF ReturnRefused(order)
  THEN [order |-> order, status |-> 400, provider |-> FALSE]
  ELSE IF enabled /\ providerFails THEN ReturnFailure(order)
  ELSE IF enabled
  THEN [order |-> save(createReturnShipment(order)), status |-> 200,
        provider |-> TRUE]
  ELSE [order |-> save([order EXCEPT !.returnStatus = "return_initiated"]),
        status |-> 200, provider |-> FALSE]

Return(o, actor, providerFails) ==
  /\ orders' = [orders EXCEPT ![o] = initiateReturn(@, actor, providerFails).order]
  /\ Answer("return", initiateReturn(orders[o], actor, providerFails).status)
  /\ UNCHANGED <<products, req, enabled, stock0, service, call, now, returns>>

\* The return handler as the event loop runs it: findById and the guards, then
\* the await of the provider's answer, then the await of order.save().
\* Handlers of other requests run between these steps.
ReturnLoad(k, o, actor) ==
  /\ returns[k].pc = "idle"
  /\ LET order == orders[o]
         answer(status) ==
           /\ returns' = [returns EXCEPT ![k] = [@ EXCEPT !.pc = "done", !.oid = o,
                                                          !.status = status]]
           /\ Answer("return", status)
         await(pc, doc) ==
           /\ returns' = [returns EXCEPT ![k] = [@ EXCEPT !.pc = pc, !.oid = o,
                                                          !.doc = <<doc>>]]
           /\ UNCHANGED last
     IN IF ~IsOwner(order, actor) /\ actor.role # "admin" THEN answer(403)
        ELSE IF ReturnRefused(order) THEN answer(400)
        ELSE IF enabled THEN await("provider", order)
        ELSE await("save", [order EXCEPT !.returnStatus = "return_initiated"])
  /\ UNCHANGED <<products, orders, req, enabled, stock0, service, call, now>>

\* this.request({ method: 'post', url: '/orders/create/adhoc' }) settles: the
\* reverse shipment exists at the provider unless the call failed
ReturnProvider(k, providerFails) ==
  /\ returns[k].pc = "provider"
  /\ IF providerFails
     THEN /\ returns' = [returns EXCEPT ![k] = [@ EXCEPT !.pc = "done", !.asked = TRUE,
                                                         !.status = 502]]
          /\ Answer("return", 502)
     ELSE /\ returns' = [returns EXCEPT
                           ![k] = [@ EXCEPT !.pc = "save", !.asked = TRUE,
                                            !.doc = <<createReturnShipment(@[1])>>]]
          /\ UNCHANGED last
  /\ UNCHANGED <<products, orders, req, enabled, stock0, service, call, now>>

\* order.save() of the loaded document: the paths the handler assigned are
\* written over whatever is stored by then
ReturnSave(k) ==
  /\ returns[k].pc = "save"
  /\ orders' = [orders EXCEPT
                  ![returns[k].oid] =
                     save([@ EXCEPT !.returnStatus = returns[k].doc[1].returnStatus,
                                    !.shippingIntegration =
                                       returns[k].doc[1].shippingIntegration])]
  /\ returns' = [returns EXCEPT ![k] = [@ EXCEPT !.pc = "done", !.status = 200]]
  /\ Answer("return", 200)
  /\ UNCHANGED <<products, req, enabled, stock0, service, call, now>>

\* --------------------------- GET /api/orders/:id/tracking, POST /:id/sync
\* What GET /courier/track/awb/:awb does: it throws, answers without
\* tracking_data, or answers with a current status and the shipment's events
\* (each event kept as its status)
TrackingOutcomes ==
  {[kind |-> "throws", current_status |-> NoneVal, shipment_track |-> <<>>],
   [kind |-> "empty", current_status |-> NoneVal, shipment_track |-> <<>>],
   [kind |-> "data", current_status |-> " Delivered ",
    shipment_track |-> <<"Shipped", "Delivered">>],
   [kind |-> "data", current_status |-> "In Transit", shipment_track |-> <<"Shipped">>],
   [kind |-> "data", current_status |-> "weird_custom_code", shipment_track |-> <<>>],
   [kind |-> "data", current_status |-> "constructor", shipment_track |-> <<>>]}

\* A schema whose orderStatus accepts any string
SaveNeverRejects(order) == FALSE

\* order.save() fails validation when orderStatus is not in the schema's enum
SaveRejects(order) == order.orderStatus \notin OrderStatuses

\* A fetch that adds the provider's events to the stored history
AssignTrackingAppending(order, trackingData) ==
  LET latestStatus == trackingData.current_status
      mappedStatus == OrElse(normalizeStatus(latestStatus), order.orderStatus)
  IN [order EXCEPT
        !.shippingIntegration =
           [@ EXCEPT !.present = TRUE,
                     !.status = OrElse(latestStatus, @),
                     !.trackingHistory = @ \o trackingData.shipment_track,
                     !.deliveredAt = IF mappedStatus = "delivered" THEN now ELSE @],
        !.orderStatus = mappedStatus]

\* The assignments fetchTracking makes to the order before it saves
AssignTracking(order, trackingData) ==
  LET latestStatus == trackingData.current_status
      mappedStatus == OrElse(normalizeStatus(latestStatus), order.orderStatus)
      events == trackingData.shipment_track
  IN [order EXCEPT
        !.shippingIntegration =
           [@ EXCEPT !.present = TRUE,
                     !.status = OrElse(latestStatus, @),
                     !.trackingHistory = IF Len(events) > 0 THEN events ELSE @,
                     !.deliveredAt = IF mappedStatus = "delivered" THEN now ELSE @],
        !.orderStatus = mappedStatus]

\* fetchTracking: the order it leaves stored and whether it threw
fetchTracking(order, trackingData) ==
  IF ~enabled \/ order.shippingIntegration.awb = NoneVal
  THEN [order |-> order, threw |-> FALSE]
  ELSE IF trackingData.kind = "throws" THEN [order |-> order, threw |-> TRUE]
  ELSE IF trackingData.kind = "empty" THEN [order |-> order, threw |-> FALSE]
  ELSE IF SaveRejects(AssignTracking(order, trackingData))
  THEN [order |-> order, threw |-> TRUE]
  ELSE [order |-> save(AssignTracking(order, trackingData)), threw |-> FALSE]

Tracking(o, actor, outcome) ==
  /\ IF ~IsOwner(orders[o], actor) /\ actor.role # "admin"
     THEN Answer("tracking", 403) /\ UNCHANGED orders
     ELSE /\ orders' = IF enabled /\ orders[o].shippingIntegration.awb # NoneVal
                       THEN [orders EXCEPT ![o] = fetchTracking(@, outcome).order]
                       ELSE orders
          /\ Answer("tracking", 200)
  /\ UNCHANGED <<products, req, enabled, stock0, service, call, now, returns>>

\* PUT /:id/status and POST /:id/sync, both behind adminAuth: syncTracking
Sync(o, outcome) ==
  /\ IF ~enabled THEN Answer("sync", 400) /\ UNCHANGED orders
     ELSE IF o = 0 THEN Answer("sync", 500) /\ UNCHANGED orders
     ELSE /\ orders' = [orders EXCEPT ![o] = fetchTracking(@, outcome).order]
          /\ Answer("sync", IF fetchTracking(orders[o], outcome).threw THEN 500 ELSE 200)
  /\ UNCHANGED <<products, req, enabled, stock0, service, call, now, returns>>

\* A status edit that writes the status the caller sent
putStatusManual(order, orderStatus, trackingData) ==
  [order |-> [order EXCEPT !.orderStatus = orderStatus], status |-> 200]

\* router.put('/:id/status') once the order is found, orderStatus being what
\* the caller sent in the body (the handler does not read it): the order it
\* leaves stored and the HTTP status
putStatus(order, orderStatus, trackingData) ==
  IF ~enabled THEN [order |-> order, status |-> 400]
  ELSE [order |-> fetchTracking(order, trackingData).order,
        status |-> IF fetchTracking(order, trackingData).threw THEN 500 ELSE 200]

\* PUT /:id/status behind adminAuth; syncTracking throws when the order is not
\* found
StatusEdit(o, orderStatus, outcome) ==
  /\ IF o = 0
     THEN Answer("status", IF enabled THEN 500 ELSE 400) /\ UNCHANGED orders
     ELSE /\ orders' = [orders EXCEPT ![o] = putStatus(@, orderStatus, outcome).order]
          /\ Answer("status", putStatus(orders[o], orderStatus, outcome).status)
  /\ UNCHANGED <<products, req, enabled, stock0, service, call, now, returns>>

\* The steps of one create request, for carts of at most maxItems items and a
\* provider that answers the rate quote with one of quoteOutcomes and the
\* shipment creation with one of shipmentResponses
CreateStep(r, maxItems, quoteOutcomes, shipmentResponses) ==
  \/ Start(r)
  \/ Item(r, maxItems)
  \/ CheckoutOffline(r)
  \/ CheckoutOnline(r)
  \/ GatewayFails(r)
  \/ Quote(r, quoteOutcomes)
  \/ Ship(r, shipmentResponses)

\* Concurrent create requests against the stock ledger; the shipping provider,
\* when enabled, answers every post-commit call
Next ==
  \E r \in Requests :
    CreateStep(r, MaxItems, {"charged"},
               {[status |-> "NEW", awb |-> "awb_1", order_id |-> "sr_1"]})

Spec == Init /\ [][Next]_vars

\* One create request with a one-item cart, and the lifecycle requests on the
\* order it commits
InitLife == InitWith(1, {MaxStock})

NextLife ==
  \/ \E r \in Requests :
       \/ CreateStep(r, 1, QuoteOutcomes, ShipmentResponses)
       \/ ShipFails(r)
  \/ \E op \in {"verify", "cancel", "return", "tracking"} : NotFound(op)
  \/ \E o \in OrderIds, actor \in Actors :
       \/ \E p \in PaymentIds, sig \in Signatures : Verify(o, actor, p, sig)
       \/ Cancel(o, actor)
       \/ CancelProviderDown(o, actor)
       \/ \E providerFails \in BOOLEAN : Return(o, actor, providerFails)
       \/ \E outcome \in TrackingOutcomes : Tracking(o, actor, outcome)
  \/ \E o \in OrderIds \cup {0}, outcome \in TrackingOutcomes : Sync(o, outcome)

SpecLife == InitLife /\ [][NextLife]_vars

\* ------------------------------------------------ the Shiprocket adapter
Minute == 1        \* 60 * 1000 ms on the clock
TenMinutes == 10   \* 10 * 60 * 1000 ms on the clock
NoResponse == 0 - 1  \* error.response?.status of a timeout: undefined

\* What POST /auth/login does: it answers with a token and expires_in (here in
\* minutes, 0 when the field is absent), or it fails
LoginResponses ==
  {[status |-> 200, expires_in |-> 0], [status |-> 200, expires_in |-> 2],
   [status |-> 401, expires_in |-> 0], [status |-> 500, expires_in |-> 0]}

\* An authenticate() that still reuses a token with exactly a minute left
authenticateToTheMinute(svc, t, force, response, fresh) ==
  IF ~force /\ svc.token # 0 /\ svc.tokenExpiresAt >= t + Minute
  THEN [service |-> svc, token |-> svc.token, login |-> FALSE, status |-> 200]
  ELSE IF response.status # 200
  THEN [service |-> svc, token |-> 0, login |-> TRUE, status |-> response.status]
  ELSE [service |-> [token |-> fresh,
                     tokenExpiresAt |-> t + (IF response.expires_in # 0
                                             THEN response.expires_in ELSE TenMinutes)],
        token |-> fresh, login |-> TRUE, status |-> 200]

\* authenticate(force) at time t, `response` being what the login would answer
\* and `fresh` the token it would issue: the service afterwards, the token
\* returned, whether the login was called and the status it ended with
authenticate(svc, t, force, response, fresh) ==
  IF ~force /\ svc.token # 0 /\ svc.tokenExpiresAt > t + Minute
  THEN [service |-> svc, token |-> svc.token, login |-> FALSE, status |-> 200]
  ELSE IF response.status # 200
  THEN [service |-> svc, token |-> 0, login |-> TRUE, status |-> response.status]
  ELSE [service |-> [token |-> fresh,
                     tokenExpiresAt |-> t + (IF response.expires_in # 0
                                             THEN response.expires_in ELSE TenMinutes)],
        token |-> fresh, login |-> TRUE, status |-> 200]

\* A catch block that retries once after any failure
CaughtAnyFailure(c, status) ==
  IF ~c.retry
  THEN [c EXCEPT !.pc = "auth", !.retry = TRUE]
  ELSE [c EXCEPT !.pc = "done", !.status = status]

\* catch (error): a 401 without config._retry calls request() again with
\* _retry set; anything else is rethrown
Caught(c, status) ==
  IF status = 401 /\ ~c.retry
  THEN [c EXCEPT !.pc = "auth", !.retry = TRUE]
  ELSE [c EXCEPT !.pc = "done", !.status = status]

\* The carriers a serviceability response is made of; 0 stands for an absent
\* field
Carriers ==
  {[courier_company_id |-> 1, estimated_delivery_days |-> 2, rate |-> 50,
    freight_charge |-> 50, cod_charges |-> 40, fuel_surcharge |-> 0],
   [courier_company_id |-> 2, estimated_delivery_days |-> 2, rate |-> 60,
    freight_charge |-> 60, cod_charges |-> 0, fuel_surcharge |-> 0],
   [courier_company_id |-> 3, estimated_delivery_days |-> 1, rate |-> 90,
    freight_charge |-> 90, cod_charges |-> 0, fuel_surcharge |-> 10],
   [courier_company_id |-> 4, estimated_delivery_days |-> 0, rate |-> 20,
    freight_charge |-> 0, cod_charges |-> 0, fuel_surcharge |-> 0],
   [courier_company_id |-> 5, estimated_delivery_days |-> 2, rate |-> 0,
    freight_charge |-> 60, cod_charges |-> 0, fuel_surcharge |-> 5],
   [courier_company_id |-> 0, estimated_delivery_days |-> 1, rate |-> 10,
    freight_charge |-> 10, cod_charges |-> 0, fuel_surcharge |-> 0]}

\* response.data?.data?.available_courier_companies || []
CompanyLists == UNION {[1..n -> Carriers] : n \in 0..MaxCarriers}

\* Number(a.estimated_delivery_days || a.etd || 99)
Days(company) ==
  IF company.estimated_delivery_days # 0 THEN company.estimated_delivery_days ELSE 99

\* a.rate || a.freight_charge || 0: what the comparator breaks ties on
SortRate(company) == IF company.rate # 0 THEN company.rate ELSE company.freight_charge

\* freight + codCharge + fuel of the chosen carrier
ComputedCharge(company) ==
  (IF company.freight_charge # 0 THEN company.freight_charge ELSE company.rate)
  + company.cod_charges + company.fuel_surcharge

\* The comparator of the sort: a goes strictly before b
Before(a, b) ==
  \/ Days(a) < Days(b)
  \/ Days(a) = Days(b) /\ SortRate(a) < SortRate(b)

\* .filter((company) => company?.courier_company_id)
HasIdentifier(company) == company.courier_company_id # 0

\* sorted[0] || companies[0], as a sequence of at most one carrier: the sort is
\* stable, so sorted[0] is the earliest carrier that none goes before
Chosen(companies) ==
  LET sorted == SelectSeq(companies, HasIdentifier)
      first == CHOOSE i \in 1..Len(sorted) :
                 /\ \A j \in 1..Len(sorted) : ~Before(sorted[j], sorted[i])
                 /\ \A j \in 1..(i - 1) : Before(sorted[i], sorted[j])
  IN IF Len(sorted) > 0 THEN <<sorted[first]>> ELSE <<companies[1]>>

\* getRateQuote once the serviceability response is in
getRateQuote(companies) ==
  IF Len(companies) = 0 THEN NullQuote
  ELSE LET chosen == Chosen(companies)[1]
       IN [found |-> TRUE, courierCompanyId |-> chosen.courier_company_id,
           charge |-> ComputedCharge(chosen)]

\* getRateQuote is called: with the provider disabled it answers null at once,
\* otherwise it enters request().
GetRateQuote ==
  /\ call.pc \in {"idle", "done"}
  /\ call.calls < MaxCalls
  /\ call' = IF enabled
             THEN [call EXCEPT !.pc = "auth", !.retry = FALSE, !.token = 0,
                               !.attempts = <<>>, !.status = 0, !.calls = @ + 1,
                               !.companies = <<>>, !.quote = NullQuote]
             ELSE [call EXCEPT !.pc = "done", !.retry = FALSE, !.token = 0,
                               !.attempts = <<>>, !.status = 200, !.calls = @ + 1,
                               !.companies = <<>>, !.quote = NullQuote]
  /\ UNCHANGED <<products, orders, req, enabled, last, stock0, service, now, returns>>

\* const token = await this.authenticate(): the cached token, or a login
\* that succeeds or throws.
Authenticate ==
  /\ call.pc = "auth"
  /\ \E response \in LoginResponses :
       LET res == authenticate(service, now, FALSE, response, call.logins + 1)
           c == [call EXCEPT !.logins = IF res.login THEN @ + 1 ELSE @]
       IN /\ service' = res.service
          /\ call' = IF res.status = 200
                     THEN [c EXCEPT !.pc = "send", !.token = res.token]
                     ELSE Caught(c, res.status)
  /\ UNCHANGED <<products, orders, req, enabled, last, stock0, now, returns>>

\* What the provider answers an outbound call with; NoResponse is a timeout
SendStatuses == {200, 401, 500, NoResponse}

\* await axios({ ...config, headers }): the call goes out with the token; a
\* response ends request() and getRateQuote picks the carrier, a failure goes
\* to the catch block.
Send ==
  /\ call.pc = "send"
  /\ \E status \in SendStatuses, companies \in CompanyLists :
       LET c == [call EXCEPT !.attempts = Append(@, [token |-> call.token,
                                                     status |-> status])]
       IN call' = IF status = 200
                  THEN [c EXCEPT !.pc = "done", !.status = 200,
                                 !.companies = companies,
                                 !.quote = getRateQuote(companies)]
                  ELSE Caught(c, status)
  /\ UNCHANGED <<products, orders, req, enabled, last, stock0, service, now, returns>>

\* A minute passes.
Tick ==
  /\ now < MaxNow
  /\ now' = now + 1
  /\ UNCHANGED <<products, orders, req, enabled, last, stock0, service, call, returns>>

\* Rate quotes asked one after the other while the clock runs
InitAdapter == InitWith(0, {MaxStock})

NextAdapter ==
  \/ GetRateQuote
  \/ Authenticate
  \/ Send
  \/ Tick

SpecAdapter == InitAdapter /\ [][NextAdapter]_vars

\* request() is a chain of awaits on one event loop: each of its steps is
\* taken once the promise it waits for has settled
SpecAdapterLive == SpecAdapter /\ WF_vars(Authenticate) /\ WF_vars(Send)

\* ---------------------------------------------- tracking while time passes
\* One create request, then tracking fetches, syncs and status edits on the
\* order it commits while the clock runs
NextTracking ==
  \/ \E r \in Requests :
       CreateStep(r, 1, {"charged"}, {[status |-> "NEW", awb |-> "awb_1", order_id |-> "sr_1"]})
  \/ \E o \in OrderIds \cup {0}, orderStatus \in {"delivered", "cancelled"},
        outcome \in TrackingOutcomes :
       StatusEdit(o, orderStatus, outcome)
  \/ \E o \in OrderIds, outcome \in TrackingOutcomes :
       \/ Tracking(o, [id |-> orders[o].user, role |-> "user"], outcome)
       \/ Sync(o, outcome)
  \/ Tick

SpecTracking == InitLife /\ [][NextTracking]_vars

\* ------------------------------------------ return requests side by side
\* One create request, the provider reporting the parcel delivered, and return
\* requests whose handlers interleave at their awaits
NextReturn ==
  \/ \E r \in Requests :
       CreateStep(r, 1, {"charged"}, {[status |-> "NEW", awb |-> "awb_1", order_id |-> "sr_1"]})
  \/ \E o \in OrderIds :
       Sync(o, [kind |-> "data", current_status |-> " Delivered ",
                shipment_track |-> <<"Shipped", "Delivered">>])
  \/ \E k \in Requests, o \in OrderIds, actor \in Actors : ReturnLoad(k, o, actor)
  \/ \E k \in Requests, providerFails \in BOOLEAN : ReturnProvider(k, providerFails)
  \/ \E k \in Requests : ReturnSave(k)

SpecReturn == InitLife /\ [][NextReturn]_vars

\* ------------------------------------------------- the catalogue under edit
\* The updates an administrator sends for a product: a new price, a new stock
ProductUpdates == {[price |-> 550], [price |-> 500], [stock |-> 0], [stock |-> MaxStock]}

\* Product.findOneAndUpdate with productSchema.pre('findOneAndUpdate'): an
\* update that names stock recomputes inStock from the pending document
findOneAndUpdate(doc, update) ==
  IF "stock" \in DOMAIN update
  THEN [doc EXCEPT !.stock = update.stock,
                   !.inStock = \/ update.stock > 0
                               \/ \E i \in 1..Len(doc.sizes) : doc.sizes[i].stock > 0]
  ELSE [doc EXCEPT !.price = update.price]

\* The update is written outside any session, straight to the collection.
UpdateProduct(p, update) ==
  /\ products' = [products EXCEPT ![p] = findOneAndUpdate(@, update)]
  /\ UNCHANGED <<orders, req, enabled, last, stock0, service, call, now, returns>>

\* One create request, the lifecycle requests of the owner and of an
\* administrator on the order it commits, and edits of the plain product
NextCatalog ==
  \/ \E r \in Requests :
       CreateStep(r, 1, {"charged"}, {[status |-> "NEW", awb |-> "awb_1", order_id |-> "sr_1"]})
  \/ \E update \in ProductUpdates : UpdateProduct("P1", update)
  \/ \E o \in OrderIds :
       \/ \E sig \in Signatures :
            Verify(o, [id |-> orders[o].user, role |-> "user"], "pay_1", sig)
       \/ \E role \in {"user", "admin"} : Cancel(o, [id |-> orders[o].user, role |-> role])
       \/ \E providerFails \in BOOLEAN :
            Return(o, [id |-> orders[o].user, role |-> "user"], providerFails)
       \/ \E outcome \in {t \in TrackingOutcomes : Len(t.shipment_track) > 0} :
            \/ Tracking(o, [id |-> orders[o].user, role |-> "user"], outcome)
            \/ Sync(o, outcome)

SpecCatalog == InitLife /\ [][NextCatalog]_vars

\* ------------------------------------------------------- ledger accounting
\* The lines of the committed orders, as <<order, position>>
Lines == UNION {{<<o, i>> : i \in 1..Len(orders[o].items)} : o \in 1..Len(orders)}

LineItem(l) == orders[l[1]].items[l[2]]

RECURSIVE SumQuantity(_)
SumQuantity(lines) ==
  IF lines = {} THEN 0
  ELSE LET l == CHOOSE x \in lines : TRUE
       IN LineItem(l).quantity + SumQuantity(lines \ {l})

\* Quantity of product p in all committed orders
Ordered(p) == SumQuantity({l \in Lines : LineItem(l).product = p})

\* Quantity committed against the plain counter of p
PlainReserved(p) ==
  SumQuantity({l \in Lines : /\ LineItem(l).product = p
                             /\ LineItem(l).size = NoneVal
                             /\ stock0[p].sizes = <<>>})

\* Quantity committed against the i-th size entry of p
SizeReserved(p, i) ==
  SumQuantity({l \in Lines : /\ LineItem(l).product = p
                             /\ LineItem(l).size # NoneVal
                             /\ FindSize(stock0[p].sizes, LineItem(l).size) = i})

\* The Product collection that the committed orders account for: every line
\* taken off the counter it names, aggregate and flag recomputed
ExpectedProducts ==
  [p \in ProductIds |->
     LET sizes == [i \in 1..Len(stock0[p].sizes) |->
                     [stock0[p].sizes[i] EXCEPT !.stock = @ - SizeReserved(p, i)]]
         stock == IF Len(sizes) > 0 THEN SumStock(sizes)
                  ELSE stock0[p].stock - PlainReserved(p)
     IN [stock0[p] EXCEPT !.sizes = sizes, !.stock = stock,
                          !.inStock = stock > 0 \/ \E i \in 1..Len(sizes) : sizes[i].stock > 0]]

\* The create requests that have committed an order
Committed == {r \in Requests : req[r].oid # 0}

Failed(r, codes) == req[r].pc = "done" /\ req[r].status \in codes

\* ------------------------------------------------------------------ claims
\* C1: for every product, plain or size-variant, the quantities of it in all
\* committed orders sum to at most the stock it started with.
C1_CommittedWithinStock ==
  \A p \in ProductIds : Ordered(p) <= stock0[p].stock

\* C2: in every reachable state every product's stock counter and every size
\* entry's stock counter is at least zero, in the collection and in the copy an
\* open transaction works on.
C2_StockNeverNegative ==
  LET NonNegative(product) ==
        /\ product.stock >= 0
        /\ \A i \in 1..Len(product.sizes) : product.sizes[i].stock >= 0
  IN \A p \in ProductIds :
       /\ NonNegative(products[p])
       /\ \A r \in Requests : InTransaction(r) => NonNegative(req[r].view[p])

\* A counter has been taken down to zero by a committed order and a later
\* request has been refused for want of stock
C2_Witness ==
  /\ stock0["P1"].stock > 0
  /\ products["P1"].stock = 0
  /\ \E r \in Requests : Failed(r, {409})

\* C3: once a create request has failed on an item (size not found, short
\* stock, unknown product, non-positive quantity) it has persisted no order and
\* the Product collection holds exactly what the committed orders of the other
\* requests account for: stock, size stocks and inStock as before the request.
C3_FailedItemLeavesNoTrace ==
  \A r \in Requests :
    Failed(r, {400, 404, 409}) =>
      /\ r \notin Committed
      /\ Len(orders) = Cardinality(Committed)
      /\ products = ExpectedProducts

\* A two-item request whose first item was reserved and whose second failed
C3_Witness ==
  \E r \in Requests :
    /\ Failed(r, {400, 404, 409})
    /\ Len(req[r].cart) = 2
    /\ req[r].cart[1] = [product |-> "P1", size |-> NoneVal, quantity |-> 1]
    /\ stock0["P1"].stock >= 1
    /\ products = stock0

\* C4: a create request that called the payment gateway and committed no order
\* has answered 502, and the Product collection holds what the committed
\* orders account for: the stock it had reserved is back.
C4_GatewayFailureRollsBack ==
  \A r \in Requests :
    (req[r].pc = "done" /\ req[r].gateway > 0 /\ r \notin Committed) =>
      /\ req[r].status = GatewayError
      /\ Len(orders) = Cardinality(Committed)
      /\ products = ExpectedProducts

\* The gateway failed after a sized item had been reserved
C4_Witness ==
  \E r \in Requests :
    /\ Failed(r, {GatewayError})
    /\ req[r].gateway = 1
    /\ req[r].cart[1] = [product |-> "P2", size |-> "s", quantity |-> 1]
    /\ stock0["P2"].sizes[1].stock >= 1
    /\ products = stock0
    /\ orders = <<>>

\* C5: every stored order has total = subtotal + tax + shipping, in every
\* state from its commit on: after the rate-quote reconciliation and after
\* every verify, cancel, return, tracking and sync.
C5_TotalReconciles ==
  \A o \in OrderIds :
    orders[o].total = orders[o].subtotal + orders[o].tax + orders[o].shipping

\* An order whose shipping charge was revised by the quote, then paid and
\* cancelled
C5_Witness ==
  \E o \in OrderIds :
    /\ orders[o].shipping # ProvisionalShipping(orders[o].subtotal)
    /\ orders[o].paymentStatus = "refunded"
    /\ orders[o].orderStatus = "cancelled"

\* The stock a one-unit item is checked against: the size entry it names, or
\* the product's stock when it names no size
AvailableFor(item) ==
  IF item.size = NoneVal THEN stock0[item.product].stock
  ELSE stock0[item.product].sizes[FindSize(stock0[item.product].sizes, item.size)].stock

\* Two requests that each asked for one unit of the same product, of which one
\* unit was available, and were both answered, the gateway not failing
OneUnitRace(item) ==
  /\ item.product \in ProductIds
  /\ item.quantity = 1
  /\ item.size # NoneVal => FindSize(stock0[item.product].sizes, item.size) > 0
  /\ AvailableFor(item) = 1
  /\ \A r \in {1, 2} : /\ req[r].pc = "done"
                       /\ req[r].cart = <<item>>
                       /\ req[r].status # GatewayError

\* C6: of two concurrent requests that each order one unit of a product with
\* stock 1, exactly one commits (201) and the other is refused with 409.
C6_ExactlyOneCommits ==
  \A item \in ItemChoices :
    OneUnitRace(item) => {req[1].status, req[2].status} = {Created, 409}

\* C7: a create request whose post-commit rate quote or shipment creation
\* failed has answered 201, its order is stored with the items it asked for,
\* and the Product collection holds the decrements of the committed orders.
C7_PostCommitFailureStill201 ==
  \A r \in Requests :
    (req[r].pc = "done" /\ req[r].degraded) =>
      /\ req[r].status = Created
      /\ req[r].oid \in OrderIds
      /\ Len(orders[req[r].oid].items) = Len(req[r].cart)
      /\ products = ExpectedProducts

\* The shipment call failed: the order is stored without an AWB and the stock
\* it reserved is gone from the ledger
C7_Witness ==
  \E r \in Requests :
    /\ req[r].pc = "done" /\ req[r].degraded
    /\ orders[req[r].oid].shippingIntegration.awb = NoneVal
    /\ orders[req[r].oid].shippingIntegration.orderId = NoneVal
    /\ products # stock0

\* C8: a create request paying cod never calls the payment gateway, and the
\* order it commits has paymentStatus pending and no gateway order id.
C8_CodOpensNoIntent ==
  \A r \in Requests :
    req[r].method = "cod" =>
      /\ req[r].gateway = 0
      /\ r \in Committed =>
           /\ orders[req[r].oid].paymentMethod = "cod"
           /\ orders[req[r].oid].paymentStatus = "pending"
           /\ orders[req[r].oid].razorpayOrderId = NoneVal

\* A cod request has committed its order and been answered 201
C8_Witness ==
  \E r \in Requests :
    /\ req[r].method = "cod"
    /\ req[r].pc = "done" /\ req[r].status = Created
    /\ r \in Committed

\* C9: a verify request by the order's owner sets paymentStatus to completed
\* when the signature is the HMAC-SHA256 of "<stored gateway order id>|<payment
\* id>" under the secret, and for every other signature sets it to failed and
\* answers 400.
C9_OwnerVerify ==
  \A o \in OrderIds, actor \in Actors, pid \in PaymentIds, sig \in Signatures :
    orders[o].user = actor.id =>
      LET res == verify(orders[o], actor, pid, sig)
      IN IF sig = HmacSha256(Secret, SignedText(orders[o].razorpayOrderId, pid))
         THEN res.order.paymentStatus = "completed" /\ res.status = 200
         ELSE res.order.paymentStatus = "failed" /\ res.status = 400

\* A verify was answered 200 and left the order completed with its payment id
C9_Witness ==
  /\ last = [op |-> "verify", status |-> 200]
  /\ \E o \in OrderIds : /\ orders[o].paymentStatus = "completed"
                         /\ orders[o].razorpayPaymentId \in PaymentIds

\* C10: a verify request by anyone but the order's owner is answered 403 and
\* leaves every field of the order as it was, whatever payment id and
\* signature it carries.
C10_NonOwnerVerifyRejected ==
  \A o \in OrderIds, actor \in Actors, pid \in PaymentIds, sig \in Signatures :
    orders[o].user # actor.id =>
      verify(orders[o], actor, pid, sig) = [order |-> orders[o], status |-> 403]

\* A verify was answered 403 on an order that waits for its online payment
C10_Witness ==
  /\ last = [op |-> "verify", status |-> 403]
  /\ \E o \in OrderIds : /\ orders[o].razorpayOrderId # NoneVal
                         /\ orders[o].paymentStatus = "pending"

\* Callers of the lifecycle routes, an admin who owns the order included
AllActors == Actors \cup {[id |-> "u1", role |-> "admin"]}

\* The stored order o as it would be with another orderStatus and returnStatus
OrderIn(o, st, rs) == [orders[o] EXCEPT !.orderStatus = st, !.returnStatus = rs]

\* C11: a cancel by the owning non-admin user on an order in in_transit,
\* out_for_delivery, delivered, return_in_transit, returned, cancelled or
\* rto_delivered is answered 400, sends nothing to the provider and leaves the
\* order as it was; in every other status the owner's cancel succeeds.
C11_OwnerCancelGuard ==
  \A o \in OrderIds, st \in OrderStatuses :
    LET order == OrderIn(o, st, orders[o].returnStatus)
    IN \A actor \in {a \in AllActors : a.role # "admin" /\ orders[o].user = a.id} :
         LET res == cancel(order, actor)
         IN IF st \in {"in_transit", "out_for_delivery", "delivered",
                       "return_in_transit", "returned", "cancelled", "rto_delivered"}
            THEN res = [order |-> order, status |-> 400, provider |-> FALSE]
            ELSE res.status = 200 /\ res.order.orderStatus = "cancelled"

\* The owner's cancel of a delivered order was answered 400
C11_Witness ==
  /\ last = [op |-> "cancel", status |-> 400]
  /\ \E o \in OrderIds : /\ orders[o].orderStatus = "delivered"
                         /\ orders[o].cancelledAt = NoneVal

\* C12: a cancel by an admin succeeds in every orderStatus and leaves the order
\* cancelled, cancelledAt stamped and cancelledByUser false; a cancel by the
\* non-admin owner that succeeds leaves cancelledByUser true.
C12_AdminCancel ==
  \A o \in OrderIds, st \in OrderStatuses :
    LET order == OrderIn(o, st, orders[o].returnStatus)
    IN \A actor \in AllActors :
         LET res == cancel(order, actor)
         IN /\ actor.role = "admin" =>
                 /\ res.status = 200
                 /\ res.order.orderStatus = "cancelled"
                 /\ res.order.cancelledAt # NoneVal
                 /\ res.order.cancelledByUser = FALSE
            /\ (actor.role # "admin" /\ res.status = 200) =>
                 res.order.cancelledByUser = TRUE

\* An admin's cancel was answered 200 and the order is cancelled, not by the user
C12_Witness ==
  /\ last = [op |-> "cancel", status |-> 200]
  /\ \E o \in OrderIds : /\ orders[o].orderStatus = "cancelled"
                         /\ orders[o].cancelledAt # NoneVal
                         /\ orders[o].cancelledByUser = FALSE

\* C13: a return by the owner or an admin on an order that is not delivered, or
\* whose returnStatus is anything but none, is answered 400, sends nothing to
\* the provider and leaves the order as it was; so a returnStatus that has left
\* none is never written again by a return.
C13_ReturnGuard ==
  \A o \in OrderIds :
    \A c \in {<<st, rs>> \in OrderStatuses \X ReturnStatuses :
                /\ st # "delivered" \/ rs # "none"
                /\ st \in {"delivered", orders[o].orderStatus}
                   \/ rs \in {"none", orders[o].returnStatus}} :
      LET order == OrderIn(o, c[1], c[2])
          refused == [order |-> order, status |-> 400, provider |-> FALSE]
      IN \A actor \in {a \in AllActors : a.role = "admin" \/ orders[o].user = a.id},
            providerFails \in BOOLEAN :
           initiateReturn(order, actor, providerFails) = refused

\* A second return on a delivered order was answered 400
C13_Witness ==
  /\ last = [op |-> "return", status |-> 400]
  /\ \E o \in OrderIds : /\ orders[o].orderStatus = "delivered"
                         /\ orders[o].returnStatus = "return_initiated"

\* C14: with the provider enabled, a return that passes the guards and whose
\* reverse-shipment request fails is answered 502 and the stored order keeps
\* returnStatus none and has no return shipment id and no return AWB.
C14_ReturnProviderFailure ==
  \A o \in OrderIds, actor \in AllActors :
    (enabled /\ (actor.role = "admin" \/ orders[o].user = actor.id)
       /\ orders[o].orderStatus = "delivered" /\ orders[o].returnStatus = "none") =>
      LET res == initiateReturn(orders[o], actor, TRUE)
      IN /\ res.status = 502
         /\ res.provider
         /\ res.order = orders[o]
         /\ res.order.returnStatus = "none"
         /\ res.order.shippingIntegration.returnShipmentId = NoneVal
         /\ res.order.shippingIntegration.returnAwb = NoneVal

\* A return of a delivered order was answered 502 and nothing was recorded
C14_Witness ==
  /\ last = [op |-> "return", status |-> 502]
  /\ \E o \in OrderIds : /\ orders[o].orderStatus = "delivered"
                         /\ orders[o].returnStatus = "none"
                         /\ orders[o].shippingIntegration.returnShipmentId = NoneVal

\* The answers of the provider that carry tracking data
TrackingData == {t \in TrackingOutcomes : t.kind = "data"}

\* The provider can be asked about order o: it is enabled and o has an AWB
Trackable(o) == enabled /\ orders[o].shippingIntegration.awb # NoneVal

\* C15: a tracking fetch whose provider status, trimmed and lower-cased, has no
\* entry in the normalisation table leaves orderStatus as it was; one that has
\* an entry sets orderStatus to the mapped value.
C15_UnmappedStatusKept ==
  \A o \in OrderIds, st \in OrderStatuses :
    Trackable(o) =>
      LET order == OrderIn(o, st, orders[o].returnStatus)
      IN \A t \in TrackingData :
           LET key == ToLowerCase(Trim(t.current_status))
           IN fetchTracking(order, t).order.orderStatus
                = IF key \in DOMAIN STATUS_MAP THEN STATUS_MAP[key] ELSE st

\* A shipped order was synced with an unmapped provider status: the provider
\* status is recorded and orderStatus is still what the shipment creation set
C15_Witness ==
  \E o \in OrderIds :
    /\ orders[o].shippingIntegration.awb # NoneVal
    /\ orders[o].shippingIntegration.status = "weird_custom_code"
    /\ orders[o].orderStatus = "processing"

\* C16: of two tracking syncs in succession on one order, with the same
\* provider answer both times, the second leaves orderStatus and the length of
\* trackingHistory as the first left them.
C16_SyncIdempotent ==
  \A o \in OrderIds, st \in OrderStatuses :
    LET order == OrderIn(o, st, orders[o].returnStatus)
    IN \A t \in TrackingOutcomes :
         LET first == fetchTracking(order, t).order
             second == fetchTracking(first, t).order
         IN /\ second.orderStatus = first.orderStatus
            /\ Len(second.shippingIntegration.trackingHistory)
                 = Len(first.shippingIntegration.trackingHistory)

\* A sync has stored a status and an event of the provider, and the same
\* answer once more would be fetched for this order
C16_Witness ==
  /\ last = [op |-> "sync", status |-> 200]
  /\ \E o \in OrderIds :
       /\ Trackable(o)
       /\ orders[o].orderStatus = "in_transit"
       /\ orders[o].shippingIntegration.trackingHistory = <<"Shipped">>

\* C17: an order that is cancelled, returned or rto_delivered keeps that
\* orderStatus through every tracking fetch, whatever the provider reports.
C17_TerminalStaysTerminal ==
  \A o \in OrderIds, t \in TrackingOutcomes :
    orders[o].orderStatus \in {"cancelled", "returned", "rto_delivered"} =>
      fetchTracking(orders[o], t).order.orderStatus = orders[o].orderStatus

\* The cart of the pricing scenario: two units of P1, whose unit price is 500
ScenarioCart == <<[product |-> "P1", size |-> NoneVal, quantity |-> 2]>>

\* The request r has just committed the order of the scenario cart, and the
\* post-commit reconciliation has not run yet
ScenarioCommitted(r) ==
  /\ r \in Committed
  /\ req[r].pc = "quote"
  /\ req[r].cart = ScenarioCart
  /\ orders[req[r].oid].items[1].price = 500

\* C18 as stated: the order of the scenario cart has subtotal 1000, tax 180,
\* shipping 50 and total 1050.
C18_ScenarioAsStated ==
  \A r \in Requests :
    ScenarioCommitted(r) =>
      /\ orders[req[r].oid].subtotal = 1000
      /\ orders[req[r].oid].tax = 180
      /\ orders[req[r].oid].shipping = 50
      /\ orders[req[r].oid].total = 1050

\* C18: the order of the cart [{P1, quantity 2, unit price 500}] is committed
\* with subtotal 1000, tax 180, shipping 50 (1000 is not greater than 1000) and
\* total 1230.
C18_ScenarioTotals ==
  \A r \in Requests :
    ScenarioCommitted(r) =>
      /\ orders[req[r].oid].subtotal = 1000
      /\ orders[req[r].oid].tax = 180
      /\ orders[req[r].oid].shipping = 50
      /\ orders[req[r].oid].total = 1230

\* The scenario order has been committed
C18_Witness ==
  \E r \in Requests : ScenarioCommitted(r) /\ orders[req[r].oid].total = 1230

\* What an order records of the purchase: its number, the snapshot of its
\* items and the amounts priced from them
Snapshot(order) ==
  [orderNumber |-> order.orderNumber, items |-> order.items,
   subtotal |-> order.subtotal, tax |-> order.tax]

\* C19: once an order is committed, no step of any request (verify, cancel,
\* return, sync, tracking, the post-commit steps of create) and no edit of a
\* product's price or stock changes its orderNumber, the product, size,
\* quantity and unit price of its items, its subtotal or its tax.
C19_SnapshotImmutable ==
  [][\A o \in 1..Len(orders) :
       /\ orders[o].orderNumber # <<>>
       /\ Snapshot(orders'[o]) = Snapshot(orders[o])]_vars

\* An order of the plain product that was verified, returned and cancelled,
\* after which the product's price was changed
C19_Witness ==
  \E o \in OrderIds :
    /\ orders[o].items[1].product = "P1"
    /\ orders[o].items[1].price # products["P1"].price
    /\ orders[o].orderStatus = "cancelled"
    /\ orders[o].returnStatus = "return_initiated"
    /\ orders[o].paymentStatus # "pending"
    /\ orders[o].shippingIntegration.trackingHistory # <<>>

\* The fourteen canonical order statuses
CanonicalStatuses ==
  {"pending", "processing", "confirmed", "pickup_scheduled", "shipped", "in_transit",
   "out_for_delivery", "delivered", "cancelled", "return_initiated",
   "return_in_transit", "returned", "rto_initiated", "rto_delivered"}

C21_StatusEditIsSync ==
  \A o \in OrderIds, orderStatus \in OrderStatuses, t \in TrackingOutcomes :
    LET res == putStatus(orders[o], orderStatus, t)
    IN /\ ~enabled => res.order = orders[o] /\ res.status = 400
       /\ enabled => res.order = fetchTracking(orders[o], t).order
       /\ res.order.orderStatus # orders[o].orderStatus =>
            /\ enabled
            /\ t.kind = "data"
            /\ res.order.orderStatus = normalizeStatus(t.current_status)

\* A status edit was answered 200 and the order carries a status reported by
\* the provider
C21_Witness ==
  /\ last = [op |-> "status", status |-> 200]
  /\ \E o \in OrderIds :
       /\ orders[o].orderStatus = "in_transit"
       /\ orders[o].shippingIntegration.status = "In Transit"

C23_RetryReauthenticated ==
  Len(call.attempts) = 2 => call.attempts[2].token # call.attempts[1].token

\* C24: authenticate() makes no login and returns the cached token whenever a
\* token is cached and expires more than 60 seconds from now; otherwise (no
\* token, or 60 seconds or less left) it calls the login, and a login that
\* succeeds replaces the cached token and its expiry.
C24_TokenReuse ==
  [][(call.pc = "auth" /\ call' # call) =>
       IF service.token # 0 /\ service.tokenExpiresAt > now + Minute
       THEN /\ call'.logins = call.logins
            /\ service' = service
            /\ call'.pc = "send"
            /\ call'.token = service.token
       ELSE /\ call'.logins = call.logins + 1
            /\ call'.pc = "send" =>
                 /\ service'.token # service.token
                 /\ service'.tokenExpiresAt > now
                 /\ service'.tokenExpiresAt # service.tokenExpiresAt
                 /\ call'.token = service'.token]_vars

\* A second request, minutes after the only login, goes out with the cached
\* token
C24_Witness ==
  /\ call.pc = "send"
  /\ call.calls = 2
  /\ call.logins = 1
  /\ call.token = service.token
  /\ now > 1
  /\ service.tokenExpiresAt > now + Minute

\* The positions of the carriers with a valid identifier in the response of
\* the call
Identified == {i \in 1..Len(call.companies) : HasIdentifier(call.companies[i])}

\* C25: among the carriers of the response that have a valid identifier, the
\* quote is for one with the fewest estimated delivery days and, among those
\* tied on days, one with the lowest freight + COD surcharge + fuel surcharge;
\* the charge returned is that sum for the carrier selected.
C25_FastestThenCheapest ==
  (call.pc = "done" /\ call.quote.found /\ Identified # {}) =>
    \E i \in Identified :
      LET c == call.companies[i]
      IN /\ call.quote.courierCompanyId = c.courier_company_id
         /\ call.quote.charge = ComputedCharge(c)
         /\ \A j \in Identified : Days(c) <= Days(call.companies[j])
         /\ \A j \in Identified :
              Days(call.companies[j]) = Days(c) =>
                ComputedCharge(c) <= ComputedCharge(call.companies[j])

\* C26: the quote is never for a carrier without a valid identifier: a
\* response with no carrier that has one (an empty list, or only carriers that
\* lack it) is answered null.
C26_NoQuoteWithoutIdentifier ==
  (call.pc = "done" /\ call.status = 200) =>
    /\ call.quote.found => call.quote.courierCompanyId # 0
    /\ Identified = {} => ~call.quote.found

\* a is a prefix of b
IsPrefix(a, b) == Len(a) <= Len(b) /\ SubSeq(b, 1, Len(a)) = a

\* C27: the tracking history only grows at its end: after any step, the
\* history stored for an order begins with the history stored before the step,
\* entry for entry.
C27_TrackingAppendOnly ==
  [][\A o \in 1..Len(orders) :
       IsPrefix(orders[o].shippingIntegration.trackingHistory,
                orders'[o].shippingIntegration.trackingHistory)]_vars

\* C28: deliveredAt is set by the step that makes the order delivered, and once
\* set no later step changes it.
C28_DeliveredAtSetOnce ==
  [][\A o \in 1..Len(orders) :
       /\ (orders[o].orderStatus # "delivered" /\ orders'[o].orderStatus = "delivered") =>
            orders'[o].shippingIntegration.deliveredAt # 0
       /\ orders[o].shippingIntegration.deliveredAt # 0 =>
            orders'[o].shippingIntegration.deliveredAt =
              orders[o].shippingIntegration.deliveredAt]_vars

\* C29: the committed orders take each item that names a size off exactly the
\* size entry its label matches without regard to case: every size entry holds
\* its initial stock less the quantities committed against it, the labels stay,
\* and the product's aggregate stock is the sum of its size stocks.
C29_SizeStockLedger ==
  \A p \in ProductIds :
    Len(stock0[p].sizes) > 0 =>
      /\ Len(products[p].sizes) = Len(stock0[p].sizes)
      /\ \A i \in 1..Len(stock0[p].sizes) :
           /\ products[p].sizes[i].size = stock0[p].sizes[i].size
           /\ products[p].sizes[i].stock = stock0[p].sizes[i].stock - SizeReserved(p, i)
      /\ products[p].stock = SumStock(products[p].sizes)

\* An order for size "s" is committed: entry S is down, entry M is where it
\* started
C29_Witness ==
  /\ \E l \in Lines : LineItem(l).product = "P2" /\ LineItem(l).size = "s"
  /\ products["P2"].sizes[1].stock < stock0["P2"].sizes[1].stock
  /\ products["P2"].sizes[2].stock = stock0["P2"].sizes[2].stock
  /\ products["P2"].sizes[2].stock > 0

\* C30: a create request that stopped on an item whose size label matches no
\* size entry of the product has answered 409 and committed nothing, and the
\* Product collection holds what the committed orders account for.
C30_UnknownSizeIs409 ==
  \A r \in Requests :
    (req[r].pc = "done" /\ r \notin Committed /\ Len(req[r].cart) > 0) =>
      LET item == req[r].cart[Len(req[r].cart)]
      IN (/\ item.product \in ProductIds
          /\ item.quantity > 0
          /\ item.size # NoneVal
          /\ FindSize(stock0[item.product].sizes, item.size) = 0) =>
           /\ req[r].status = 409
           /\ products = ExpectedProducts

\* Quantity committed for p by items that name no size
UnsizedOrdered(p) ==
  SumQuantity({l \in Lines : LineItem(l).product = p /\ LineItem(l).size = NoneVal})

\* C31: an item without a size on a product with size variants is checked
\* against the sum of the variant stocks and refused with 409 when the sum is
\* smaller; when it is accepted no size entry changes, so the committed items
\* without a size leave the sum of the size stocks where the sized items put it.
C31_UnsizedItemOnVariants ==
  \A p \in ProductIds :
    Len(stock0[p].sizes) > 0 =>
      /\ \A q \in 1..(MaxQty + MaxStock + 1) :
           \A product \in {products[p]} \cup {req[r].view[p] : r \in {x \in Requests : InTransaction(x)}} :
             LET res == ReserveItem(product, NoneVal, q)
             IN IF SumStock(product.sizes) < q
                THEN res.status = 409 /\ res.product = product
                ELSE res.status = 0 /\ res.product.sizes = product.sizes
      /\ SumStock(products[p].sizes) =
           SumStock(stock0[p].sizes) - (Ordered(p) - UnsizedOrdered(p))

\* An order for the size-variant product with no size is committed and the
\* size entries are where they started
C31_Witness ==
  /\ UnsizedOrdered("P2") > 0
  /\ products["P2"].sizes = stock0["P2"].sizes
  /\ \E r \in Requests : Failed(r, {409})

\* C32: in the Product collection and in every product document an open
\* transaction has written, inStock is (stock > 0 or some size entry has stock
\* > 0): the flag is part of the write that changes the stock.
C32_InStockDerived ==
  \A p \in ProductIds :
    /\ products[p].inStock = hasAvailableStock(products[p])
    /\ \A r \in Requests :
         InTransaction(r) => req[r].view[p].inStock = hasAvailableStock(req[r].view[p])

\* The last unit of the plain product is committed and the flag is down
C32_Witness ==
  /\ stock0["P1"].inStock
  /\ products["P1"].stock = 0
  /\ ~products["P1"].inStock
  /\ Ordered("P1") > 0

\* C33: a permitted cancel during which the provider fails the shipment
\* cancellation is still answered 200 and stores orderStatus cancelled with
\* cancelledAt stamped; the provider is asked only for an order that has an AWB
\* and is not delivered, return_in_transit or returned.
C33_CancelSurvivesProvider ==
  \A o \in OrderIds, actor \in AllActors :
    \A st \in {orders[o].orderStatus, "shipped", "delivered", "return_in_transit",
                "returned"} :
      LET order == OrderIn(o, st, orders[o].returnStatus)
          plain == cancel(order, actor)
      IN plain.provider =>
           LET res == cancelProviderDown(order, actor)
           IN /\ order.shippingIntegration.awb # NoneVal
              /\ st \notin {"delivered", "return_in_transit", "returned"}
              /\ plain.status = 200
              /\ res.status = 200
              /\ res.order.orderStatus = "cancelled"
              /\ res.order.cancelledAt # NoneVal
              /\ res.order = plain.order

\* An order with an AWB was cancelled while the provider is enabled
C33_Witness ==
  /\ enabled
  /\ last = [op |-> "cancel", status |-> 200]
  /\ \E o \in OrderIds :
       /\ orders[o].orderStatus = "cancelled"
       /\ orders[o].shippingIntegration.awb # NoneVal
       /\ orders[o].shippingIntegration.orderId # NoneVal
       /\ orders[o].shippingIntegration.status = "cancelled"

\* orderSchema.paymentStatus enum
PaymentStatuses == {"pending", "completed", "failed", "refunded"}

\* C34: a cancel that succeeds stores paymentStatus refunded exactly when the
\* order had paymentStatus completed and a payment method other than cod; in
\* every other case it stores the paymentStatus the order had.
C34_RefundFlag ==
  \A o \in OrderIds, ps \in PaymentStatuses, method \in {"cod", "card", "razorpay"} :
    \A actor \in {[id |-> orders[o].user, role |-> "user"], [id |-> "a1", role |-> "admin"]} :
      LET order == [orders[o] EXCEPT !.paymentStatus = ps, !.paymentMethod = method]
          res == cancel(order, actor)
      IN res.status = 200 =>
           res.order.paymentStatus =
             IF ps = "completed" /\ method # "cod" THEN "refunded" ELSE ps

\* A paid order was cancelled and is marked refunded
C34_Witness ==
  /\ last = [op |-> "cancel", status |-> 200]
  /\ \E o \in OrderIds :
       /\ orders[o].orderStatus = "cancelled"
       /\ orders[o].paymentStatus = "refunded"
       /\ orders[o].razorpayPaymentId # NoneVal

\* C35: a failed verification is final: on an order whose paymentStatus is
\* failed, a verify by the owner leaves paymentStatus failed whatever payment
\* id and signature it carries.
C35_FailedIsTerminal ==
  \A o \in OrderIds, razorpayPaymentId \in PaymentIds, razorpaySignature \in Signatures :
    orders[o].paymentStatus = "failed" =>
      verify(orders[o], [id |-> orders[o].user, role |-> "user"],
             razorpayPaymentId, razorpaySignature).order.paymentStatus = "failed"

RECURSIVE SumAmount(_)
\* Unit price times quantity, summed over a set of order lines
SumAmount(lines) ==
  IF lines = {} THEN 0
  ELSE LET l == CHOOSE x \in lines : TRUE
       IN LineItem(l).price * LineItem(l).quantity + SumAmount(lines \ {l})

\* C36: the order a create request has just committed has one item per cart
\* item, each priced at the product's stored price as the transaction read it;
\* its subtotal is the sum of unit price times quantity, its tax 18% of the
\* subtotal, its shipping 0 when the subtotal is greater than 1000 and 50
\* otherwise (1000 included), and its total the sum of the three.
C36_PricingFromCatalogue ==
  /\ \A r \in Requests :
       InTransaction(r) =>
         \A i \in 1..Len(req[r].orderItems) :
           /\ req[r].orderItems[i].price = req[r].view[req[r].orderItems[i].product].price
           /\ req[r].orderItems[i].price = products[req[r].orderItems[i].product].price
  /\ \A r \in Committed :
       req[r].pc = "quote" =>
         LET o == req[r].oid
             order == orders[o]
         IN /\ Len(order.items) = Len(req[r].cart)
            /\ \A i \in 1..Len(order.items) :
                 /\ order.items[i].product = req[r].cart[i].product
                 /\ order.items[i].quantity = req[r].cart[i].quantity
                 /\ order.items[i].price = products[order.items[i].product].price
            /\ order.subtotal = SumAmount({l \in Lines : l[1] = o})
            /\ 100 * order.tax = 18 * order.subtotal
            /\ order.shipping = IF order.subtotal > 1000 THEN 0 ELSE 50
            /\ order.subtotal = 1000 => order.shipping = 50
            /\ order.total = order.subtotal + order.tax + order.shipping

\* A two-item order above the threshold and a one-item order exactly on it are
\* committed
C36_Witness ==
  /\ \E r \in Committed :
       /\ req[r].pc = "quote"
       /\ Len(orders[req[r].oid].items) = 2
       /\ orders[req[r].oid].subtotal > 1000
       /\ orders[req[r].oid].shipping = 0
  /\ \E o \in OrderIds : orders[o].subtotal = 1000 /\ orders[o].tax = 180

\* C37: when a create request that opened a payment intent has completed, the
\* amount of the intent is 100 times the total stored on its order.
C37_IntentMatchesTotal ==
  \A r \in Committed :
    (req[r].pc = "done" /\ req[r].intentAmount # 0) =>
      req[r].intentAmount = 100 * orders[req[r].oid].total

\* C38: no stored order is cancelled, paid by a method other than cod and
\* still marked completed: a completed online payment on a cancelled order is
\* marked refunded.
C38_CancelledNeverCompleted ==
  \A o \in OrderIds :
    (orders[o].orderStatus = "cancelled" /\ orders[o].paymentMethod # "cod") =>
      orders[o].paymentStatus # "completed"

\* C39: with the provider enabled, of the return requests made on one
\* delivered order, however their handlers interleave, at most one has the
\* provider create a reverse-pickup shipment and at most one is answered 200.
C39_OneReturnPerOrder ==
  enabled =>
    \A o \in OrderIds :
      /\ Cardinality({k \in Requests : /\ returns[k].oid = o
                                       /\ returns[k].asked
                                       /\ returns[k].status # 502}) <= 1
      /\ Cardinality({k \in Requests : returns[k].oid = o /\ returns[k].status = 200}) <= 1

\* C40: a cancel request, whoever sends it, on whichever order and whatever
\* its answer, leaves every product's stock, size stocks and inStock as they
\* were.
C40_CancelKeepsStock ==
  [][\A o \in OrderIds :
       (last'.op = "cancel" \/
        (orders'[o].orderStatus = "cancelled" /\ orders[o].orderStatus # "cancelled"))
         => products' = products]_vars

C40_Witness ==
  /\ last = [op |-> "cancel", status |-> 200]
  /\ \E o \in OrderIds :
       /\ orders[o].orderStatus = "cancelled"
       /\ products[orders[o].items[1].product].stock
            = stock0[orders[o].items[1].product].stock - orders[o].items[1].quantity

====
